---- MODULE Spec2Model ----
(***************************************************************************)
(* A model of the synthetic S&P 500 chart (src/src/LiveSP500Canvas.jsx).   *)
(*                                                                         *)
(* Numbers.  The source computes with IEEE doubles.  The model uses:       *)
(*  - time in whole seconds (the proxy produces timestamp * 1000, so every *)
(*    series time of the source is a whole number of seconds; one model    *)
(*    unit is 1000 ms of the source).  A domain bound, which the source    *)
(*    keeps as a double, is rounded to the nearest second after every      *)
(*    multiplication or division (MulDiv), as the double is rounded to the *)
(*    nearest representable value;                                         *)
(*  - prices and synthetic values as exact rationals <<n, d>>, d > 0, in   *)
(*    lowest terms (Rat), so that equality of values is decided exactly.   *)
(***************************************************************************)
EXTENDS Integers, Sequences, FiniteSets, TLC

VARIABLES
    interval,     \* useState("60"): the interval token
    key,          \* useState(0): the reload key
    startTs,      \* useMemo over startISO: Undef or Some(timestamp)
    rawData,      \* useState([]): the committed raw series
    error,        \* useState(""): the advisory message
    preset,       \* useState("SYNTHETIC:+1"): the option, as its signed number
    baseValue,    \* useState(100)
    yMode,        \* useState("linear")
    domain,       \* useState(undefined): Undef (auto-fit) or Some([x0, x1])
    isPanning,    \* useState(false)
    panStart,     \* useRef(null): Null or Some([x, x0, x1])
    cross,        \* useState(null): Null or Some([ts, price])
    fetches,      \* the fetch effect's runs still awaiting their response
    issued,       \* how many times the fetch effect has run
    gestures,     \* wheel, pointer-down and pointer-move events so far
    turns,        \* wheel events that changed the pixel or the direction
    ev,           \* the handler that ran last, and what it saw
    simIn,        \* the simulator alone: its arguments
    simOut        \* the simulator alone: its result

vars == <<interval, key, startTs, rawData, error, preset, baseValue, yMode,
          domain, isPanning, panStart, cross, fetches, issued, gestures,
          turns, ev, simIn, simOut>>

\* An optional value is <<>> (undefined, null) or <<v>>.
Undef == <<>>
Null == <<>>
Some(v) == <<v>>

-----------------------------------------------------------------------------
(* Arithmetic *)

Abs(n) == IF n < 0 THEN -n ELSE n
Max(a, b) == IF a >= b THEN a ELSE b
Min(a, b) == IF a <= b THEN a ELSE b

RECURSIVE GCD(_, _)
GCD(a, b) == IF b = 0 THEN a ELSE GCD(b, a % b)

\* The rational n/d in lowest terms with a positive denominator.
Rat(n, d) ==
    LET g == GCD(Abs(n), Abs(d))
        s == IF d < 0 THEN -1 ELSE 1
    IN  <<s * (n \div g), s * (d \div g)>>

RInt(n) == <<n, 1>>
RAdd(p, q) == Rat(p[1] * q[2] + q[1] * p[2], p[2] * q[2])
RSub(p, q) == Rat(p[1] * q[2] - q[1] * p[2], p[2] * q[2])
\* Cross-cancelled first, so that the products stay small.
RMul(p, q) ==
    LET a == Rat(p[1], q[2])
        b == Rat(q[1], p[2])
    IN  Rat(a[1] * b[1], a[2] * b[2])
RDiv(p, q) == RMul(p, Rat(q[2], q[1]))
RLess(p, q) == p[1] * q[2] < q[1] * p[2]
RLeq(p, q) == p[1] * q[2] <= q[1] * p[2]
RIsZero(p) == p[1] = 0

\* a * b / c rounded to the nearest integer (c > 0, b >= 0), computed without
\* forming a * b: a = q * c + r gives a * b / c = q * b + r * b / c.
MulDivPos(a, b, c) ==
    LET q == a \div c
        r == a % c
    IN  q * b + ((2 * r * b + c) \div (2 * c))
MulDiv(a, b, c) == IF b < 0 THEN MulDivPos(-a, -b, c) ELSE MulDivPos(a, b, c)

-----------------------------------------------------------------------------
(* buildSyntheticSeries, lines 144-161 *)

\* The loop of lines 149-159 from index i on (1-based), with the running base
\* and the output so far.
RECURSIVE SynthLoop(_, _, _, _, _)
SynthLoop(spx, leverage, i, base, out) ==
    IF i > Len(spx) THEN out
    ELSE IF i = 1
         THEN SynthLoop(spx, leverage, 2, base,
                        Append(out, [time |-> spx[1].time, value |-> base]))
         ELSE LET prev == spx[i - 1].value
                  curr == spx[i].value
                  r == IF ~RIsZero(prev) THEN RDiv(RSub(curr, prev), prev)
                       ELSE RInt(0)
                  nb == RMul(base, RAdd(RInt(1), RMul(RInt(leverage), r)))
              IN  SynthLoop(spx, leverage, i + 1, nb,
                            Append(out, [time |-> spx[i].time, value |-> nb]))

\* A simulator that starts from the first price instead of the base.
SynthFromFirstPrice(spx, leverage, baseStart) ==
    IF Len(spx) = 0 THEN <<>>
    ELSE SynthLoop(spx, leverage, 1, spx[1].value, <<>>)

\* A simulator that ignores the leverage.
SynthUnleveraged(spx, leverage, baseStart) ==
    IF Len(spx) = 0 THEN <<>>
    ELSE SynthLoop(spx, 1, 1, baseStart, <<>>)

\* baseStart is a number in every call the component makes (lines 431, 727,
\* 879), so the typeof branch of line 146 is never taken and is not modelled.
buildSyntheticSeries(spx, leverage, baseStart) ==
    IF Len(spx) = 0 THEN <<>>
    ELSE SynthLoop(spx, leverage, 1, baseStart, <<>>)

-----------------------------------------------------------------------------
(* Inputs: what the environment can hand to the component *)

\* Date.now() (lines 168, 460): 2023-11-14T22:13:20Z, in seconds.
Now == 19675 * 86400 + 80000

NaN == <<0, 0>>
Finite(v) == v[2] # 0

\* Bodies the proxy can answer with: hourly bars from 14:30 UTC (the spec's
\* example prices), hourly bars of an earlier day with a zero, a negative
\* move and a point without a price, and no points at all.
SeriesA ==
    << [time |-> 1699972200, value |-> RInt(100)],
       [time |-> 1699975800, value |-> RInt(110)],
       [time |-> 1699979400, value |-> RInt(99)] >>
SeriesB ==
    << [time |-> 1699885800, value |-> RInt(50)],
       [time |-> 1699889400, value |-> RInt(0)],
       [time |-> 1699893000, value |-> NaN],
       [time |-> 1699896600, value |-> RInt(20)],
       [time |-> 1699900200, value |-> RInt(25)] >>
Responses == {SeriesA, SeriesB, <<>>}

\* The three ways fetchYahooSPX fails, with the message the catch receives.
FailTransport == "Failed to fetch"
FailHttp == "Backend /api/spx failed: 502"
FailShape == "Missing series from /api/spx"
Failures == {FailTransport, FailHttp, FailShape}

Intervals == {"1", "5", "15", "60", "D", "W", "M"}
YModes == {"linear", "log", "percent"}

-----------------------------------------------------------------------------
(* Data helpers *)


\* fetchYahooSPX's normalisation, lines 136-141: the points with a finite
\* value (every time of a body is a number).
SanityFilter(series) ==
    LET ok(p) == Finite(p.value) IN SelectSeq(series, ok)

\* buildDemoSPX, lines 164-176, for n points.  Math.random is the draw: with
\* the drift, each step moves the price by +5 or -5, alternating from the
\* draw's parity (the source's step lies in (-6.6, 8.4) around 4500).
RECURSIVE DemoLoop(_, _, _, _, _)
DemoLoop(n, draw, i, price, out) ==
    IF i >= n THEN out
    ELSE LET shock == IF (i + draw) % 2 = 0 THEN 5 ELSE -5
             p == Max(1, price + shock)
             start == Now - n * 3600
         IN  DemoLoop(n, draw, i + 1, p,
                      Append(out, [time |-> start + i * 3600, value |-> RInt(p)]))

\* A fallback that generates nothing.
DemoNothing(n, draw) == <<>>

buildDemoSPX(n, draw) == DemoLoop(n, draw, 0, 4500, <<>>)

\* parseLeverage(preset) || 1, line 434.  The preset is kept as the signed
\* number its option encodes (lines 54-63: +1..+10, -1..-10).
Leverage(p) == IF p # 0 THEN p ELSE 1

\* !startTs, lines 469 and 526: undefined, or the timestamp 0.
NoStart(ts) == ts = Undef \/ ts[1] = 0

\* filteredData, lines 523-560.
FilteredData(raw, ts) ==
    IF Len(raw) = 0 THEN raw
    ELSE IF NoStart(ts) THEN raw
    ELSE LET minTs == raw[1].time
             maxTs == raw[Len(raw)].time
         IN  IF ts[1] > maxTs THEN <<>>
             ELSE LET effectiveStart == Max(ts[1], minTs)
                      ok(p) == p.time >= effectiveStart
                  IN  SelectSeq(raw, ok)

filteredData == FilteredData(rawData, startTs)

\* synth, lines 562-567.
synth == buildSyntheticSeries(filteredData, Leverage(preset), RInt(baseValue))

\* fullDomain, lines 584-592.
FullDomainOf(s) ==
    [x0 |-> IF Len(s) > 0 THEN s[1].time ELSE 0,
     x1 |-> IF Len(s) > 0 THEN s[Len(s)].time ELSE 1]

fullDomain == FullDomainOf(synth)

\* activeDomain, line 593.
ActiveOf(dom, full) == IF dom # Undef THEN dom[1] ELSE full

activeDomain == ActiveOf(domain, fullDomain)

-----------------------------------------------------------------------------
(* Axis and scale utilities *)

width == 1200
height == 640
rightMargin == 90
padLeft == 40
\* Math.max(1, width - 40 - rightMargin), lines 632, 660, 690.
PlotWidth == Max(1, width - 40 - rightMargin)

Day == 24 * 60 * 60

\* intervalToStepMs, lines 181-200, in seconds; 0 stands for null.
intervalToStepMs(iv) ==
    CASE iv = "1" -> 60
      [] iv = "5" -> 5 * 60
      [] iv = "15" -> 15 * 60
      [] iv = "60" -> 60 * 60
      [] iv = "D" -> Day
      [] iv = "W" -> 7 * Day
      [] iv = "M" -> 0
      [] OTHER -> Day

\* The UTC calendar of Date: the civil date of a day number (days since
\* 1970-01-01) and back.
CivilFromDays(z0) ==
    LET z == z0 + 719468
        era == z \div 146097
        doe == z - era * 146097
        yoe == (doe - doe \div 1460 + doe \div 36524 - doe \div 146096) \div 365
        doy == doe - (365 * yoe + yoe \div 4 - yoe \div 100)
        mp == (5 * doy + 2) \div 153
        d == doy - (153 * mp + 2) \div 5 + 1
        m == IF mp < 10 THEN mp + 3 ELSE mp - 9
        y == yoe + era * 400 + (IF m <= 2 THEN 1 ELSE 0)
    IN  [y |-> y, m |-> m, d |-> d]

DaysFromCivil(y0, m, d) ==
    LET y == IF m <= 2 THEN y0 - 1 ELSE y0
        era == y \div 400
        yoe == y - era * 400
        doy == (153 * (IF m > 2 THEN m - 3 ELSE m + 9) + 2) \div 5 + d - 1
        doe == yoe * 365 + yoe \div 4 - yoe \div 100 + doy
    IN  era * 146097 + doe - 719468

\* alignToInterval, lines 202-237.
alignToInterval(ts, iv) ==
    LET days == ts \div Day
        c == CivilFromDays(days)
        dow == (days + 4) % 7          \* getUTCDay: 1970-01-01 was a Thursday
    IN  CASE iv = "M" -> DaysFromCivil(c.y, c.m, 1) * Day
          [] iv = "W" -> (days - ((dow + 6) % 7)) * Day
          [] iv = "D" -> days * Day
          [] iv = "60" -> ts - (ts % 3600)
          [] iv = "15" -> ts - (ts % 900)
          [] iv = "5" -> ts - (ts % 300)
          [] iv = "1" -> ts - (ts % 60)
          [] OTHER -> ts

\* Adding an interval with a month of 30 days.
AddThirtyDayMonth(ts, iv) ==
    IF iv = "M" THEN ts + 30 * Day
    ELSE LET step == intervalToStepMs(iv)
         IN  ts + (IF step = 0 THEN Day ELSE step)

\* addInterval, lines 239-248.  setUTCMonth(m + 1) keeps the day of the month
\* and the time of day, and lets the day run over into the month after.
addInterval(ts, iv) ==
    IF iv = "M"
    THEN LET days == ts \div Day
             c == CivilFromDays(days)
             y2 == IF c.m = 12 THEN c.y + 1 ELSE c.y
             m2 == IF c.m = 12 THEN 1 ELSE c.m + 1
         IN  (DaysFromCivil(y2, m2, 1) + (c.d - 1)) * Day + (ts % Day)
    ELSE LET step == intervalToStepMs(iv)
         IN  ts + (IF step = 0 THEN Day ELSE step)

\* clamp, lines 261-263.
clamp(n, lo, hi) == Max(lo, Min(hi, n))

TickGuard == 5000

\* The loop condition of line 356.
TickMore(t, xMax, count) == t <= xMax /\ count < TickGuard

\* The tick loop of lines 356-360: the tick times from t on.
RECURSIVE TickLoop(_, _, _, _, _)
TickLoop(t, xMax, iv, count, out) ==
    IF TickMore(t, xMax, count)
    THEN TickLoop(addInterval(t, iv), xMax, iv, count + 1, Append(out, t))
    ELSE out

\* useLog, line 292.
UseLog(slice, mode) ==
    mode = "log" /\ \A i \in 1..Len(slice) : RLess(RInt(0), slice[i].value)

\* A transform chosen by the mode alone.
TransformByMode(useLog, mode) ==
    IF mode = "log" THEN "log"
    ELSE IF mode = "percent" THEN "percent" ELSE "identity"

\* tf, lines 293-303: Math.log, the percent change against the anchor, or
\* the identity.
Transform(useLog, mode) ==
    IF useLog THEN "log"
    ELSE IF mode = "percent" THEN "percent" ELSE "identity"

\* invf, lines 305-315: Math.exp, the inverse of the percent change, or the
\* identity.
Inverse(useLog, mode) ==
    IF useLog THEN "exp"
    ELSE IF mode = "percent" THEN "percent" ELSE "identity"

\* A slice that is always the whole series.
SliceWhole(data, xMin, xMax) == data

\* slice, lines 287-288: the points inside [xMin, xMax], or every point when
\* there is none.
Slice(data, xMin, xMax) ==
    LET vis(d) == d.time >= xMin /\ d.time <= xMax
        sel == SelectSeq(data, vis)
    IN  IF Len(sel) = 0 THEN data ELSE sel

\* useChartPath, lines 266-416: the window, the visible slice, the anchor,
\* whether the log transform is used, the transform and its inverse, and the
\* tick times.  (Each tick of the source is {x: xScale(ts), ts}; the model
\* keeps ts.)
useChartPath(data, iv, dom, mode) ==
    IF Len(data) = 0
    THEN [xTicks |-> <<>>, slice |-> <<>>, last |-> Null, anchor |-> RInt(0),
          useLog |-> FALSE, tf |-> "identity", invf |-> "identity",
          xMin |-> 0, xMax |-> 0]
    ELSE LET dataXMin == data[1].time
             dataXMax == data[Len(data)].time
             xMin == Max(dom.x0, dataXMin)
             xMax == Min(dom.x1, dataXMax)
             slice == Slice(data, xMin, xMax)
             loop == TickLoop(alignToInterval(xMin, iv), xMax, iv, 0, <<>>)
             xTicks == IF Len(loop) < 2 THEN loop \o <<xMin, xMax>> ELSE loop
         IN  [xTicks |-> xTicks, slice |-> slice,
              last |-> Some(slice[Len(slice)]), anchor |-> slice[1].value,
              useLog |-> UseLog(slice, mode),
              tf |-> Transform(UseLog(slice, mode), mode),
              invf |-> Inverse(UseLog(slice, mode), mode),
              xMin |-> xMin, xMax |-> xMax]

\* chart, lines 595-604.
chart == useChartPath(synth, interval, activeDomain, yMode)

-----------------------------------------------------------------------------
(* Bounds and the inputs the handlers draw from *)

MaxFetches == 2       \* runs of the fetch effect, the one at mount included
MaxWheels == 1        \* wheel events in Spec
MaxGestures == 2      \* wheel, pointer-down and pointer-move events in SpecView
DemoPoints == 3       \* points of the demo series (the source's n is 240)

IntervalChoices == {"60", "D"}
\* No start; one that cuts SeriesA to its last two points and lies after
\* SeriesB; one that cuts SeriesB to its last point and lies before SeriesA.
StartChoices == {Undef, Some(1699975000), Some(1699898000)}
PresetChoices == {1, -10}
BaseChoices == {100, 0}
Pixels == {0, 575, 1200}    \* left padding, plot area, right margin
PlotPixels == {575}         \* a cursor inside the plot area
DemoDraws == {0, 1}
ZoomIn == -1
ZoomOut == 1

-----------------------------------------------------------------------------
(* The component: effects *)

\* What ev keeps of a handler's run: its name, the fetch it resolved (0: none)
\* and whether that fetch was superseded, the pointer's pixel and the wheel's
\* direction (0: no wheel), whether the domain was an override before, and,
\* for a wheel or a pointer move, the active domain of the render the
\* handler ran in and, for a wheel, when the event before was a
\* wheel too, that wheel's pixel, direction and active domain before.
Event(name) == [name |-> name, fetch |-> 0, stale |-> FALSE, px |-> 0,
                dir |-> 0, had |-> domain # Undef, from |-> Undef,
                prev |-> Undef]

\* The fetch effect, lines 453-510, up to its await: the cleanup of the run
\* before sets that run's cancelled flag (lines 505-507), and the new run
\* starts with its own flag false.  setError("") is line 457.
\* One year of diffYears, line 474: 365 * 24 * 60 * 60 * 1000 ms, in seconds.
Year == 365 * 86400

\* range, lines 462-486.  diffYears > k is now - startTs > k years.
Range(iv, ts, now) ==
    IF iv \in {"1", "5", "15", "60"} THEN "5d"
    ELSE IF NoStart(ts) THEN "10y"
    ELSE IF now - ts[1] > 10 * Year THEN "max"
    ELSE IF now - ts[1] > 5 * Year THEN "10y"
    ELSE IF now - ts[1] > 2 * Year THEN "5y"
    ELSE "2y"

\* iv and ts are the interval and startTs of the render the run belongs to.
RunFetchEffect(iv, ts) ==
    /\ error' = ""
    /\ fetches' = {[f EXCEPT !.cancelled = TRUE] : f \in fetches}
                  \cup {[id |-> issued + 1, cancelled |-> FALSE,
                         range |-> Range(iv, ts, Now)]}
    /\ issued' = issued + 1

\* A reset effect that does nothing.
ResetEffectNever(raw, dom) == dom

\* The reset effect, lines 514-520, after a change of startTs or of
\* rawData.length: the domain it leaves, given the one the handler set.
ResetEffect(raw, dom) == IF Len(raw) = 0 THEN dom ELSE Undef

\* A fetch effect without the cancelled flag.
CommitsAlways(f) == TRUE

\* if (!cancelled), lines 490 and 495.
Commits(f) == ~f.cancelled

-----------------------------------------------------------------------------
(* The component: handlers of the controls *)

\* The interval select, lines 820-822.
SetInterval(iv) ==
    /\ iv # interval
    /\ issued < MaxFetches
    /\ interval' = iv
    /\ RunFetchEffect(iv, startTs)
    /\ ev' = Event("edit")
    /\ UNCHANGED <<key, startTs, rawData, preset, baseValue, yMode, domain,
                   isPanning, panStart, cross, gestures, turns, simIn, simOut>>

\* The start input, lines 860-862, with startTs (lines 442-450) recomputed:
\* both effects depend on startTs.
SetStart(ts) ==
    /\ ts # startTs
    /\ issued < MaxFetches
    /\ startTs' = ts
    /\ RunFetchEffect(interval, ts)
    /\ domain' = ResetEffect(rawData, domain)
    /\ ev' = Event("start")
    /\ UNCHANGED <<interval, key, rawData, preset, baseValue, yMode,
                   isPanning, panStart, cross, gestures, turns, simIn, simOut>>

\* The leverage select, lines 793-798: it bumps the reload key too.
SetPreset(p) ==
    /\ p # preset
    /\ issued < MaxFetches
    /\ preset' = p
    /\ key' = key + 1
    /\ RunFetchEffect(interval, startTs)
    /\ ev' = Event("edit")
    /\ UNCHANGED <<interval, startTs, rawData, baseValue, yMode, domain,
                   isPanning, panStart, cross, gestures, turns, simIn, simOut>>

\* The base input, lines 877-880.
SetBaseValue(b) ==
    /\ b # baseValue
    /\ baseValue' = b
    /\ ev' = Event("edit")
    /\ UNCHANGED <<interval, key, startTs, rawData, error, preset, yMode,
                   domain, isPanning, panStart, cross, fetches, issued,
                   gestures, turns, simIn, simOut>>

\* The Y scale select, lines 892-894.
SetYMode(m) ==
    /\ m # yMode
    /\ yMode' = m
    /\ ev' = Event("edit")
    /\ UNCHANGED <<interval, key, startTs, rawData, error, preset, baseValue,
                   domain, isPanning, panStart, cross, fetches, issued,
                   gestures, turns, simIn, simOut>>

\* The Reload button, lines 909-913.
Reload ==
    /\ issued < MaxFetches
    /\ key' = key + 1
    /\ RunFetchEffect(interval, startTs)
    /\ ev' = Event("edit")
    /\ UNCHANGED <<interval, startTs, rawData, preset, baseValue, yMode, domain,
                   isPanning, panStart, cross, gestures, turns, simIn, simOut>>

\* fitToScreen, lines 717-719.
FitToScreen ==
    /\ domain' = Undef
    /\ ev' = Event("fit")
    /\ UNCHANGED <<interval, key, startTs, rawData, error, preset, baseValue,
                   yMode, isPanning, panStart, cross, fetches, issued,
                   gestures, turns, simIn, simOut>>

\* resetAll, lines 721-732.
ResetAll ==
    /\ issued < MaxFetches
    /\ preset' = 1
    /\ interval' = "60"
    /\ domain' = Undef
    /\ startTs' = Undef
    /\ baseValue' = 100
    /\ yMode' = "linear"
    /\ key' = key + 1
    /\ RunFetchEffect("60", Undef)
    /\ ev' = Event("edit")
    /\ UNCHANGED <<rawData, isPanning, panStart, cross, gestures,
                   turns, simIn, simOut>>

-----------------------------------------------------------------------------
(* The component: a fetch resolves *)

\* The awaited fetchYahooSPX returns (lines 489-493): body is the series of
\* the proxy's answer.
ResolveOk(f, body) ==
    /\ f \in fetches
    /\ fetches' = fetches \ {f}
    /\ IF Commits(f)
       THEN /\ rawData' = SanityFilter(body)
            /\ domain' = Undef
       ELSE UNCHANGED <<rawData, domain>>
    /\ ev' = [Event("resolveOk") EXCEPT !.fetch = f.id, !.stale = f.cancelled]
    /\ UNCHANGED <<interval, key, startTs, error, preset, baseValue, yMode,
                   isPanning, panStart, cross, issued, gestures,
                   turns, simIn, simOut>>

\* The awaited fetchYahooSPX throws (lines 494-503): msg is the message of
\* what was thrown, draw the outcome of Math.random in buildDemoSPX.
ResolveFail(f, msg, draw) ==
    /\ f \in fetches
    /\ fetches' = fetches \ {f}
    /\ IF Commits(f)
       THEN /\ error' = (IF msg # "" THEN msg
                         ELSE "Failed to fetch data. Using demo series.")
            /\ rawData' = buildDemoSPX(DemoPoints, draw)
            /\ domain' = Undef
       ELSE UNCHANGED <<error, rawData, domain>>
    /\ ev' = [Event("resolveFail") EXCEPT !.fetch = f.id, !.stale = f.cancelled]
    /\ UNCHANGED <<interval, key, startTs, preset, baseValue, yMode,
                   isPanning, panStart, cross, issued, gestures,
                   turns, simIn, simOut>>

-----------------------------------------------------------------------------
(* The component: gestures on the chart *)

\* The svg, and with it every gesture handler, exists only while
\* synth.length > 1 (line 943).
ChartShown == Len(synth) > 1

\* The other branch of line 943: the 'No data to display.' placeholder of
\* lines 1121-1123.
Placeholder == ~(Len(synth) > 1)

\* Math.exp(0.2) = 1.2214027..., line 636, as the fraction 331/271 =
\* 1.2214022...; Math.exp(-0.2) is its reciprocal.
ScaleNum == 331
ScaleDen == 271
\* A zoom whose factor out (5/4) is not the reciprocal of its factor in.
ScaledAsym(v, dir) ==
    IF dir > 0 THEN MulDiv(v, 5, 4) ELSE MulDiv(v, ScaleDen, ScaleNum)

\* v * Math.exp(dir * 0.2)
Scaled(v, dir) ==
    IF dir > 0 THEN MulDiv(v, ScaleNum, ScaleDen)
    ELSE MulDiv(v, ScaleDen, ScaleNum)

ZoomDivisor == 500
PanDivisor == 1000

\* The time under pixel px, lines 630-633 and 658-661.
TimeAt(a, px) == a.x0 + MulDiv(a.x1 - a.x0, px - 40, PlotWidth)

\* A zoom without the clamp.
ZoomClampNone(newX0, newX1, full) == [x0 |-> newX0, x1 |-> newX1]

\* The zoom clamp, lines 639-641.
ZoomClamp(newX0, newX1, full) ==
    LET minSpan == MulDiv(full.x1 - full.x0, 1, ZoomDivisor)
    IN  [x0 |-> Max(full.x0, Min(newX0, newX1 - minSpan)),
         x1 |-> Min(full.x1, Max(newX1, newX0 + minSpan))]

\* onWheel, lines 628-638: newX0 and newX1.
WheelRaw(a, px, dir) ==
    LET tAtCursor == TimeAt(a, px)
    IN  [x0 |-> tAtCursor - Scaled(tAtCursor - a.x0, dir),
         x1 |-> tAtCursor + Scaled(a.x1 - tAtCursor, dir)]

\* onWheel, lines 628-642: the domain it sets.
WheelDomain(a, full, px, dir) ==
    LET new == WheelRaw(a, px, dir)
    IN  ZoomClamp(new.x0, new.x1, full)

\* onWheel, lines 625-643, with the pointer at pixel px (the svg's left edge
\* is pixel 0) and deltaY of the sign of dir.  s, full and a are the synth,
\* fullDomain and activeDomain of the render the handler closes over; the
\* svg exists when Len(s) > 1.
OnWheel(s, px, dir) ==
    \E full \in {FullDomainOf(s)} :
    \E a \in {ActiveOf(domain, full)} :
        /\ Len(s) > 1
        /\ Len(s) # 0
        /\ domain' = Some(WheelDomain(a, full, px, dir))
        /\ ev' = [Event("wheel") EXCEPT
                     !.px = px, !.dir = dir, !.from = Some(a),
                     !.prev = IF ev.name = "wheel"
                              THEN Some([px |-> ev.px, dir |-> ev.dir,
                                         from |-> ev.from[1]])
                              ELSE Undef]
        /\ UNCHANGED <<interval, key, startTs, rawData, error, preset,
                       baseValue, yMode, isPanning, panStart, cross, fetches,
                       issued, simIn, simOut>>

Wheel(px, dir) == \E s \in {synth} : OnWheel(s, px, dir)

\* onPointerDown, lines 645-653.
PointerDown(clientX) ==
    \E s \in {synth} :
    \E a \in {ActiveOf(domain, FullDomainOf(s))} :
        /\ Len(s) > 1
        /\ isPanning' = TRUE
        /\ panStart' = Some([x |-> clientX, x0 |-> a.x0, x1 |-> a.x1])
        /\ ev' = [Event("down") EXCEPT !.px = clientX]
        /\ UNCHANGED <<interval, key, startTs, rawData, error, preset,
                       baseValue, yMode, domain, cross, fetches, issued,
                       turns, simIn, simOut>>

\* The crosshair search, lines 665-675, from index i on: the nearest point so
\* far and its distance (-1 stands for Infinity).
RECURSIVE NearestLoop(_, _, _, _, _, _)
NearestLoop(s, a, ts, i, nearest, best) ==
    IF i > Len(s) THEN nearest
    ELSE LET p == s[i]
             d == Abs(p.time - ts)
         IN  IF p.time < a.x0 \/ p.time > a.x1
             THEN NearestLoop(s, a, ts, i + 1, nearest, best)
             ELSE IF best < 0 \/ d < best
                  THEN NearestLoop(s, a, ts, i + 1, p, d)
                  ELSE NearestLoop(s, a, ts, i + 1, nearest, best)

\* The crosshair of lines 664-684.  (The source also stores the pixel
\* position xScale(ts), yScale(price) of the point.)
CrossAt(s, a, ts) ==
    LET nearest == NearestLoop(s, a, ts, 1, s[1], -1)
    IN  Some([ts |-> nearest.time, price |-> nearest.value])

\* The pan clamp, lines 693-702.
PanClamp(x0, x1, full) ==
    LET spanMin == MulDiv(full.x1 - full.x0, 1, PanDivisor)
        x1a == IF x1 - x0 < spanMin THEN x0 + spanMin ELSE x1
        x1b == IF x0 < full.x0 THEN x1a + (full.x0 - x0) ELSE x1a
        x0b == IF x0 < full.x0 THEN full.x0 ELSE x0
        x0c == IF x1b > full.x1 THEN x0b - (x1b - full.x1) ELSE x0b
        x1c == IF x1b > full.x1 THEN full.x1 ELSE x1b
    IN  [x0 |-> x0c, x1 |-> x1c]

\* The pan branch of onPointerMove, lines 687-703: the domain it sets.
PanDomain(ps, full, clientX) ==
    LET dxPx == clientX - ps.x
        span == ps.x1 - ps.x0
        dt == MulDiv(span, -dxPx, PlotWidth)
    IN  PanClamp(ps.x0 + dt, ps.x1 + dt, full)

\* onPointerMove, lines 655-705, with the pointer at clientX.
PointerMove(clientX) ==
    \E s \in {synth} :
    \E full \in {FullDomainOf(s)} :
    \E a \in {ActiveOf(domain, full)} :
        /\ Len(s) > 1
        /\ LET px == clamp(clientX, 0, width)
               ts == TimeAt(a, px)
           IN  cross' = IF Len(s) # 0 THEN CrossAt(s, a, ts) ELSE cross
        /\ domain' = IF isPanning /\ panStart # Null
                     THEN Some(PanDomain(panStart[1], full, clientX))
                     ELSE domain
        /\ ev' = [Event("move") EXCEPT !.px = clientX, !.from = Some(a)]
        /\ UNCHANGED <<interval, key, startTs, rawData, error, preset,
                       baseValue, yMode, isPanning, panStart, fetches,
                       issued, turns, simIn, simOut>>

\* A pointer-up that leaves the saved pan start in place.
PointerUpKeepsStart ==
    /\ ChartShown
    /\ isPanning' = FALSE
    /\ ev' = Event("up")
    /\ UNCHANGED <<interval, key, startTs, rawData, error, preset, baseValue,
                   yMode, domain, panStart, cross, fetches, issued, gestures,
                   turns, simIn, simOut>>

\* onPointerUp, lines 707-711.
PointerUp ==
    /\ ChartShown
    /\ isPanning' = FALSE
    /\ panStart' = Null
    /\ ev' = Event("up")
    /\ UNCHANGED <<interval, key, startTs, rawData, error, preset, baseValue,
                   yMode, domain, cross, fetches, issued, gestures,
                   turns, simIn, simOut>>

\* onLeave, lines 713-715.
PointerLeave ==
    /\ ChartShown
    /\ cross' = Null
    /\ ev' = Event("leave")
    /\ UNCHANGED <<interval, key, startTs, rawData, error, preset, baseValue,
                   yMode, domain, isPanning, panStart, fetches, issued,
                   gestures, turns, simIn, simOut>>

-----------------------------------------------------------------------------
(* Spec: the component's data lifecycle *)

\* The simulator alone is not called.
NoSim == [spx |-> <<>>, leverage |-> 1, baseStart |-> 100]

Mounted ==
    /\ interval = "60"
    /\ key = 0
    /\ startTs = Undef
    /\ error = ""
    /\ preset = 1
    /\ baseValue = 100
    /\ yMode = "linear"
    /\ domain = Undef
    /\ isPanning = FALSE
    /\ panStart = Null
    /\ cross = Null
    /\ gestures = 0
    /\ turns = 0
    /\ ev = [name |-> "mount", fetch |-> 0, stale |-> FALSE, px |-> 0,
             dir |-> 0, had |-> FALSE, from |-> Undef, prev |-> Undef]

\* The state after the first render and its effects: the fetch effect has run
\* once and its response is awaited.
Init ==
    /\ Mounted
    /\ rawData = <<>>
    /\ fetches = {[id |-> 1, cancelled |-> FALSE,
                   range |-> Range(interval, startTs, Now)]}
    /\ issued = 1
    /\ simIn = NoSim
    /\ simOut = Undef

\* A gesture that counts against the bound n.
Counted(A, n) ==
    gestures < n /\ A /\ gestures' = gestures + 1 /\ turns' = turns

Next ==
    \/ \E iv \in IntervalChoices : SetInterval(iv)
    \/ \E ts \in StartChoices : SetStart(ts)
    \/ \E p \in PresetChoices : SetPreset(p)
    \/ \E b \in BaseChoices : SetBaseValue(b)
    \/ Reload
    \/ FitToScreen
    \/ ResetAll
    \/ \E f \in fetches, body \in Responses : ResolveOk(f, body)
    \/ \E f \in fetches, msg \in Failures, draw \in DemoDraws :
          ResolveFail(f, msg, draw)
    \/ \E px \in PlotPixels, dir \in {ZoomIn, ZoomOut} :
          Counted(Wheel(px, dir), MaxWheels)

Spec == Init /\ [][Next]_vars

-----------------------------------------------------------------------------
(* SpecView: the viewport's gestures over a chart that is shown            *)

\* The state after the fetch of the mount has committed a series.
InitView ==
    /\ Mounted
    /\ rawData \in {SeriesA, SanityFilter(SeriesB)}
    /\ fetches = {}
    /\ issued = 1
    /\ simIn = NoSim
    /\ simOut = Undef

NextView ==
    \/ \E px \in PlotPixels, dir \in {ZoomIn, ZoomOut} :
          Counted(Wheel(px, dir), MaxGestures)
    \/ \E x \in PlotPixels : Counted(PointerDown(x), MaxGestures)
    \/ \E x \in Pixels : Counted(PointerMove(x), MaxGestures)
    \/ PointerUp
    \/ PointerLeave
    \/ FitToScreen
    \/ \E m \in YModes : SetYMode(m)
    \/ \E ts \in StartChoices : SetStart(ts)
    \/ \E f \in fetches, body \in Responses : ResolveOk(f, body)

SpecView == InitView /\ [][NextView]_vars

-----------------------------------------------------------------------------
(* SpecZoom: long runs of the wheel over a series of a hundred days        *)

\* Two daily bars a hundred days apart, from 2023-05-23T00:00:00Z: the
\* extent is 8,640,000 s, so that 1/500 of it is a whole number of seconds.
SeriesZoom ==
    << [time |-> 19500 * 86400, value |-> RInt(100)],
       [time |-> 19600 * 86400, value |-> RInt(110)] >>

MaxZoomSteps == 33
MaxTurns == 1

\* The state after the user chose the daily interval and its fetch
\* committed SeriesZoom.
InitZoom ==
    /\ interval = "D"
    /\ key = 0
    /\ startTs = Undef
    /\ rawData = SeriesZoom
    /\ error = ""
    /\ preset = 1
    /\ baseValue = 100
    /\ yMode = "linear"
    /\ domain = Undef
    /\ isPanning = FALSE
    /\ panStart = Null
    /\ cross = Null
    /\ fetches = {}
    /\ issued = 2
    /\ gestures = 0
    /\ turns = 0
    /\ ev = [name |-> "resolveOk", fetch |-> 2, stale |-> FALSE, px |-> 0,
             dir |-> 0, had |-> FALSE, from |-> Undef, prev |-> Undef]
    /\ simIn = NoSim
    /\ simOut = Undef

\* One wheel event; it is a turn when the wheel event before it was at
\* another pixel or in the other direction.
ZoomStep(s, px, dir) ==
    /\ gestures < MaxZoomSteps
    /\ LET turn == ev.name = "wheel" /\ (ev.px # px \/ ev.dir # dir)
       IN  /\ turn => turns < MaxTurns
           /\ turns' = IF turn THEN turns + 1 ELSE turns
    /\ OnWheel(s, px, dir)
    /\ gestures' = gestures + 1

\* s is the synth of the render whose handler the wheel event reaches.
NextZoom ==
    \E s \in {synth} :
        \E px \in Pixels, dir \in {ZoomIn, ZoomOut} : ZoomStep(s, px, dir)

SpecZoom == InitZoom /\ [][NextZoom]_vars

-----------------------------------------------------------------------------
(* SpecSim: buildSyntheticSeries alone                                     *)

MaxLen == 3
SimPrices == {0, 99, 100, 110}
SimLeverages == {-3, -1, 0, 1, 2, 3}
SimBases == {0, 1, 100}

\* The price series of n points at times 1..n.
SimSeries(n) ==
    { [i \in 1..n |-> [time |-> i, value |-> RInt(f[i])]] :
          f \in [1..n -> SimPrices] }

InitSim ==
    /\ Mounted
    /\ rawData = <<>>
    /\ fetches = {}
    /\ issued = 1
    /\ \E n \in 0..MaxLen :
          simIn \in [spx : SimSeries(n), leverage : SimLeverages,
                     baseStart : SimBases]
    /\ simOut = Undef

\* One call of the function on the arguments drawn.
Simulate ==
    /\ simOut = Undef
    /\ simOut' = Some(buildSyntheticSeries(simIn.spx, simIn.leverage,
                                           RInt(simIn.baseStart)))
    /\ UNCHANGED <<interval, key, startTs, rawData, error, preset, baseValue,
                   yMode, domain, isPanning, panStart, cross, fetches, issued,
                   gestures, turns, ev, simIn>>

NextSim == Simulate

SpecSim == InitSim /\ [][NextSim]_vars

-----------------------------------------------------------------------------
(* SpecRange: the range selection of the fetch effect alone               *)

\* Start timestamps around every threshold of lines 469-485: none, the
\* epoch itself, before the epoch, one second either side of 10, 5 and 2
\* years ago, and a start in the future.
RangeStarts ==
    {Undef, Some(0), Some(-86400), Some(86400),
     Some(Now - 10 * Year - 1), Some(Now - 10 * Year),
     Some(Now - 5 * Year - 1), Some(Now - 5 * Year),
     Some(Now - 2 * Year - 1), Some(Now - 2 * Year),
     Some(Now - Day), Some(Now + Day)}

InitRange ==
    /\ Mounted
    /\ rawData = <<>>
    /\ fetches = {}
    /\ issued = 1
    /\ simIn \in [interval : Intervals, startTs : RangeStarts]
    /\ simOut = Undef

\* One evaluation of lines 462-486 on the interval and start drawn.
SelectRange ==
    /\ simOut = Undef
    /\ simOut' = Some(Range(simIn.interval, simIn.startTs, Now))
    /\ UNCHANGED <<interval, key, startTs, rawData, error, preset, baseValue,
                   yMode, domain, isPanning, panStart, cross, fetches, issued,
                   gestures, turns, ev, simIn>>

NextRange == SelectRange

SpecRange == InitRange /\ [][NextRange]_vars

-----------------------------------------------------------------------------
(* SpecProxy: the proxy handler of api/spx.js alone                       *)

MaxPoints == 2

\* Number.isFinite, line 44: a number (not null, not undefined) that is
\* neither NaN nor infinite.
NumberIsFinite(v) == v # Null /\ v[2] # 0

\* What result.timestamp can be: absent, a number (no array), or an array of
\* Unix seconds.  What the close array can be: absent, or an array of
\* prices, NaN and nulls, of its own length.
Absent == [kind |-> "absent", items |-> <<>>]
NotArray == [kind |-> "number", items |-> <<>>]
Array(a) == [kind |-> "array", items |-> a]
Timestamps == {1000, 2000}
Closes == {RInt(50), RInt(0), NaN, Null}
SeqsUpTo(S, n) == UNION {[1..k -> S] : k \in 0..n}

\* The upstream: fetch rejects or answers; the answer is ok or not, with a
\* status; its body parses or not; the parsed body has or lacks the arrays.
Upstreams ==
    [rejects : BOOLEAN, ok : BOOLEAN, status : {200, 404}, parses : BOOLEAN,
     timestamp : {Absent, NotArray}
                    \cup {Array(t) : t \in SeqsUpTo(Timestamps, MaxPoints)},
     close : {Absent} \cup {Array(c) : c \in SeqsUpTo(Closes, MaxPoints)}]

\* ts.map(...), lines 39-43: one point per timestamp, the close of the same
\* index or undefined.
MapPoints(ts, close) ==
    [i \in 1..Len(ts) |->
        [time |-> ts[i] * 1000,
         value |-> IF i <= Len(close) THEN close[i] ELSE Undef]]

InternalError == [status |-> 500, body |-> [error |-> "Internal error"]]

\* The handler without its filter, line 44.
HandlerUnfiltered(u) ==
    IF u.rejects THEN InternalError
    ELSE IF ~u.ok
    THEN [status |-> 502,
          body |-> [error |-> "Upstream failed", status |-> u.status]]
    ELSE IF ~u.parses THEN InternalError
    ELSE IF u.timestamp = Absent \/ u.close = Absent
    THEN [status |-> 500, body |-> [error |-> "Bad upstream data"]]
    ELSE IF u.timestamp = NotArray THEN InternalError
    ELSE [status |-> 200,
          body |-> [series |-> MapPoints(u.timestamp.items, u.close.items)]]

\* handler, lines 5-51.  A rejected fetch (line 18), a body that does not
\* parse (line 25) and ts.map on something that is no array (line 40) throw
\* inside the try and end in the catch, lines 47-50.
handler(u) ==
    IF u.rejects THEN InternalError
    ELSE IF ~u.ok
    THEN [status |-> 502,
          body |-> [error |-> "Upstream failed", status |-> u.status]]
    ELSE IF ~u.parses THEN InternalError
    ELSE IF u.timestamp = Absent \/ u.close = Absent
    THEN [status |-> 500, body |-> [error |-> "Bad upstream data"]]
    ELSE IF u.timestamp = NotArray THEN InternalError
    ELSE LET finite(p) == NumberIsFinite(p.value)
         IN  [status |-> 200,
              body |-> [series |->
                  SelectSeq(MapPoints(u.timestamp.items, u.close.items), finite)]]

InitProxy ==
    /\ Mounted
    /\ rawData = <<>>
    /\ fetches = {}
    /\ issued = 1
    /\ simIn \in Upstreams
    /\ simOut = Undef

\* One request served.
Handle ==
    /\ simOut = Undef
    /\ simOut' = Some(handler(simIn))
    /\ UNCHANGED <<interval, key, startTs, rawData, error, preset, baseValue,
                   yMode, domain, isPanning, panStart, cross, fetches, issued,
                   gestures, turns, ev, simIn>>

NextProxy == Handle

SpecProxy == InitProxy /\ [][NextProxy]_vars

-----------------------------------------------------------------------------
(* SpecTicks: the X tick loop of useChartPath alone, one iteration a step *)

\* Window starts: a Tuesday evening; the last second of a Sunday, a month
\* and a year; midnight of a first of the month; the second before the
\* epoch.
TickStarts == {Now, 1704067199, 1706745600, -1}

\* Window lengths.  Intraday: nothing, less than a minute, an hour, and four
\* days (5760 minutes, more than the guard allows).  Daily and longer: up to
\* 400 days, over a year's end and a 29 February.
TickSpans(iv) ==
    IF iv \in {"1", "5", "15", "60"}
    THEN {0, 59, 3600, 4 * Day}
    ELSE {0, 3600, 40 * Day, 400 * Day}

InitTicks ==
    /\ Mounted
    /\ rawData = <<>>
    /\ fetches = {}
    /\ issued = 1
    /\ \E iv \in Intervals, t \in TickStarts :
          \E n \in TickSpans(iv) :
              simIn = [interval |-> iv, xMin |-> t, xMax |-> t + n]
    /\ simOut = Undef

\* Lines 352-355: the loop state before the first test of its condition.
TickStart ==
    /\ simOut = Undef
    /\ simOut' = Some([t |-> alignToInterval(simIn.xMin, simIn.interval),
                       count |-> 0, xTicks |-> <<>>])
    /\ UNCHANGED <<interval, key, startTs, rawData, error, preset, baseValue,
                   yMode, domain, isPanning, panStart, cross, fetches, issued,
                   gestures, turns, ev, simIn>>

\* Lines 356-360: one iteration of the loop.
TickStep ==
    /\ simOut # Undef
    /\ TickMore(simOut[1].t, simIn.xMax, simOut[1].count)
    /\ simOut' = Some([t |-> addInterval(simOut[1].t, simIn.interval),
                       count |-> simOut[1].count + 1,
                       xTicks |-> Append(simOut[1].xTicks, simOut[1].t)])
    /\ UNCHANGED <<interval, key, startTs, rawData, error, preset, baseValue,
                   yMode, domain, isPanning, panStart, cross, fetches, issued,
                   gestures, turns, ev, simIn>>

NextTicks == TickStart \/ TickStep

SpecTicks == InitTicks /\ [][NextTicks]_vars

-----------------------------------------------------------------------------
(* Properties of the data lifecycle, checked under Spec *)

\* A step in which the awaited response of fetch f arrives.
Resolves(f) == f \in fetches /\ f.id \notin {g.id : g \in fetches'}

\* C1: a fetch that a newer one has superseded commits nothing when it
\* resolves, whether it succeeds or fails: the raw series, the error message
\* and the domain stay as they are; and the raw series and the error are
\* written, when a response arrives, only by the fetch issued last.
C1_StaleFetchNeverCommits ==
    [][\A f \in fetches :
          Resolves(f) =>
              /\ f.cancelled => UNCHANGED <<rawData, error, domain>>
              /\ (rawData' # rawData \/ error' # error) =>
                     f.id = issued /\ ~f.cancelled]_vars

\* C1 witness: the first fetch resolves, superseded, after the second one
\* has committed a series.
C1_Witness ==
    /\ ev.name \in {"resolveOk", "resolveFail"}
    /\ ev.stale
    /\ ev.fetch < issued
    /\ rawData # <<>>

\* C2: the domain override is undefined (auto-fit) after the Fit action,
\* after the commit of a non-superseded fetch (data or demo fallback), and
\* after a change of the start filter while the raw series is non-empty,
\* whatever it was before.
C2_DomainResets ==
    /\ ev.name = "fit" => domain = Undef
    /\ (ev.name \in {"resolveOk", "resolveFail"} /\ ~ev.stale) => domain = Undef
    /\ (ev.name = "start" /\ rawData # <<>>) => domain = Undef

\* C2 witness: the start filter changed over a non-empty raw series while a
\* wheel zoom's override was in place.
C2_Witness ==
    /\ ev.name = "start"
    /\ ev.had
    /\ rawData # <<>>
    /\ domain = Undef

\* C7: on every render the geometry has at least two X ticks, so the
\* assertion 'Expected at least 2 x-ticks' of line 616 never fails.
C7_AtLeastTwoTicks == Len(chart.xTicks) >= 2

\* C8: when the synthetic series is non-empty its first point has the base
\* value exactly and the time of the first filtered point, so the assertion
\* 'First synthetic should equal baseValue' of lines 617-622 holds.
C8_FirstPointIsBase ==
    Len(synth) > 0 =>
        /\ synth[1].value = RInt(baseValue)
        /\ synth[1].time = filteredData[1].time

\* C8 witness: a series cut by the start filter, with the base changed from
\* its default.
C8_Witness ==
    /\ Len(synth) > 0
    /\ Len(synth) < Len(rawData)
    /\ baseValue # 100

\* C10: when the fetch issued last fails, the failure is caught: the error
\* message is non-empty, the raw series is a non-empty demo series and the
\* domain is auto-fit; no fetch is started by it, and a fetch starts only in
\* a step that changes the interval, the start timestamp or the reload key.
C10_FailureCaught ==
    /\ [](ev.name = "resolveFail" /\ ~ev.stale =>
              /\ error # ""
              /\ Len(rawData) > 0
              /\ domain = Undef
              /\ ev.fetch = issued
              /\ \A f \in fetches : f.cancelled)
    /\ [][issued' # issued =>
              interval' # interval \/ startTs' # startTs \/ key' # key]_vars

\* C10 witness: the response of a later fetch lacked the series array and
\* the demo series was committed.
C10_Witness ==
    /\ ev.name = "resolveFail"
    /\ ~ev.stale
    /\ error = FailShape
    /\ issued > 1
    /\ Len(rawData) > 0

-----------------------------------------------------------------------------
(* Properties of the wheel zoom, checked under SpecZoom *)

\* C3: after a wheel zoom, in or out and at any pixel, of an active domain
\* within the full extent, the domain is an override with
\* fullDomain.x0 <= x0 < x1 <= fullDomain.x1.
C3_ZoomWithinExtent ==
    ev.name = "wheel" =>
        \A full \in {fullDomain} :
            /\ domain # Undef
            /\ full.x0 <= domain[1].x0
            /\ domain[1].x0 < domain[1].x1
            /\ domain[1].x1 <= full.x1

\* C3 witness: a zoom-in with the cursor in the left padding, whose computed
\* x0 lies before the full extent, ended at the left edge.
C3_Witness ==
    /\ ev.name = "wheel"
    /\ ev.dir = ZoomIn
    /\ ev.px < padLeft
    /\ WheelRaw(ev.from[1], ev.px, ev.dir).x0 < fullDomain.x0
    /\ domain[1].x0 = fullDomain.x0
    /\ domain[1].x1 < fullDomain.x1

\* C4: after any sequence of wheel zooms from auto-fit the span of the
\* domain is at least 1/500 of the full extent, also at an edge.
C4_ZoomMinSpan ==
    ev.name = "wheel" =>
        \A full \in {fullDomain} :
            domain[1].x1 - domain[1].x0 >=
                MulDiv(full.x1 - full.x0, 1, ZoomDivisor)

\* The difference of two domains that the rounding of the times to whole
\* seconds explains (at most one second per rounding of the two zooms).
Close(d, e) == Abs(d.x0 - e.x0) <= 4 /\ Abs(d.x1 - e.x1) <= 4

\* A zoom-out that follows a zoom-in at the same pixel.
ZoomedInThenOut ==
    /\ ev.name = "wheel"
    /\ ev.dir = ZoomOut
    /\ ev.prev # Undef
    /\ ev.prev[1].dir = ZoomIn
    /\ ev.prev[1].px = ev.px

\* C6 as stated: a zoom-in followed by a zoom-out at the same pixel returns
\* the domain to its bounds before the two, for every domain and pixel.
C6_RoundTripAlways ==
    ZoomedInThenOut => Close(domain[1], ev.prev[1].from)

\* The clamp of line 640-641 left the zoom-in from domain a at pixel px as
\* computed.
ZoomInUnclamped(a, px) ==
    WheelDomain(a, fullDomain, px, ZoomIn) = WheelRaw(a, px, ZoomIn)

\* C6, amended: a zoom-in that the clamp leaves as computed, followed by a
\* zoom-out at the same pixel, returns the domain to its bounds before the
\* two.
C6_RoundTripUnclamped ==
    (ZoomedInThenOut /\ ZoomInUnclamped(ev.prev[1].from, ev.px)) =>
        Close(domain[1], ev.prev[1].from)

\* C6 witness: the round trip from a domain that is not the full extent.
C6_Witness ==
    /\ ZoomedInThenOut
    /\ ZoomInUnclamped(ev.prev[1].from, ev.px)
    /\ ev.prev[1].from # fullDomain
    /\ Close(domain[1], ev.prev[1].from)

-----------------------------------------------------------------------------
(* Properties of the pan, checked under SpecView *)

\* C5: a pointer move of a drag sets the domain to the one captured at the
\* pointer-down, shifted by the time of the pixels moved and then moved back
\* inside the full extent with its span unchanged (at least 1/1000 of the
\* full extent); a shift below fullDomain.x0 ends at fullDomain.x0.
C5_PanClampedShift ==
    (ev.name = "move" /\ isPanning /\ panStart # Null) =>
        LET ps == panStart[1]
            dt == MulDiv(ps.x1 - ps.x0, ps.x - ev.px, PlotWidth)
            span == Max(ps.x1 - ps.x0,
                        MulDiv(fullDomain.x1 - fullDomain.x0, 1, PanDivisor))
        IN  /\ domain # Undef
            /\ domain[1].x1 - domain[1].x0 = span
            /\ fullDomain.x0 <= domain[1].x0
            /\ domain[1].x1 <= fullDomain.x1
            /\ domain[1].x0 =
                   clamp(ps.x0 + dt, fullDomain.x0, fullDomain.x1 - span)
            /\ ps.x0 + dt < fullDomain.x0 => domain[1].x0 = fullDomain.x0

-----------------------------------------------------------------------------
(* Properties of buildSyntheticSeries, checked under SpecSim *)

\* The return r_i of the prices at index i >= 2.
ReturnAt(spx, i) ==
    IF RIsZero(spx[i - 1].value) THEN RInt(0)
    ELSE RDiv(RSub(spx[i].value, spx[i - 1].value), spx[i - 1].value)

\* C9: the result has the length and the times of the input, starts at the
\* base and obeys out[i] = out[i-1] * (1 + leverage * r_i); prices
\* 100, 110, 99 with leverage 2 and base 100 give 100, 120, 96; leverage 0
\* or flat prices give the base throughout.
C9_Recurrence ==
    simOut # Undef =>
        LET spx == simIn.spx
            k == simIn.leverage
            out == simOut[1]
            flat == \A i \in 1..Len(spx) : spx[i].value = spx[1].value
        IN  /\ Len(out) = Len(spx)
            /\ \A i \in 1..Len(spx) : out[i].time = spx[i].time
            /\ Len(spx) > 0 => out[1].value = RInt(simIn.baseStart)
            /\ \A i \in 2..Len(spx) :
                   out[i].value =
                       RMul(out[i - 1].value,
                            RAdd(RInt(1), RMul(RInt(k), ReturnAt(spx, i))))
            /\ ([i \in 1..Len(spx) |-> spx[i].value]
                    = <<RInt(100), RInt(110), RInt(99)>>
                /\ k = 2 /\ simIn.baseStart = 100) =>
                   [i \in 1..Len(out) |-> out[i].value]
                       = <<RInt(100), RInt(120), RInt(96)>>
            /\ (k = 0 \/ flat) =>
                   \A i \in 1..Len(out) : out[i].value = RInt(simIn.baseStart)

\* C9 witness: the function was applied to the prices 100, 110, 99 with
\* leverage 2 and base 100.
C9_Witness ==
    /\ simOut # Undef
    /\ Len(simIn.spx) = 3
    /\ [i \in 1..3 |-> simIn.spx[i].value] = <<RInt(100), RInt(110), RInt(99)>>
    /\ simIn.leverage = 2
    /\ simIn.baseStart = 100
    /\ simOut[1][3].value = RInt(96)

-----------------------------------------------------------------------------
(* Properties of the crosshair, checked under SpecView *)

\* C11: after a pointer move over a non-empty series the crosshair is a
\* point of the series whose time lies within the active domain the handler
\* saw, and no point within that domain is nearer in time to the timestamp
\* under the cursor; its ts and price are the point's time and value.
C11_CrosshairNearestInDomain ==
    (ev.name = "move" /\ Len(synth) > 0) =>
        \A s \in {synth} :
            LET a == ev.from[1]
                ts == TimeAt(a, clamp(ev.px, 0, width))
                inside(i) == a.x0 <= s[i].time /\ s[i].time <= a.x1
            IN  /\ cross # Null
                /\ \E i \in 1..Len(s) :
                       /\ cross[1] = [ts |-> s[i].time, price |-> s[i].value]
                       /\ inside(i)
                       /\ \A j \in 1..Len(s) :
                              inside(j) =>
                                  Abs(s[i].time - ts) <= Abs(s[j].time - ts)

-----------------------------------------------------------------------------
(* Properties of the geometry, checked under SpecView *)

\* The points of series s with time in [lo, hi], in order.
Within(s, lo, hi) ==
    LET ok(p) == lo <= p.time /\ p.time <= hi IN SelectSeq(s, ok)

\* The visible slice of the render: the points of the series within the
\* active domain cut to the series, or the whole series when there are none.
VisibleSlice(s, a) ==
    LET in == Within(s, Max(a.x0, s[1].time), Min(a.x1, s[Len(s)].time))
    IN  IF in = <<>> THEN s ELSE in

\* C12: over a non-empty series the geometry uses the logarithm exactly when
\* the Y mode is log and every value of the visible slice is > 0; in log
\* mode with a visible value <= 0 the transform and its inverse are the
\* identity, as in linear mode.
C12_LogFallsBackToLinear ==
    \A s \in {synth} :
        Len(s) > 0 =>
            \A a \in {ActiveOf(domain, FullDomainOf(s))} :
            \A g \in {useChartPath(s, interval, a, yMode)} :
            LET lin == useChartPath(s, interval, a, "linear")
                vis == VisibleSlice(s, a)
                positive == \A i \in 1..Len(vis) : vis[i].value[1] > 0
            IN  /\ (g.tf = "log") = (yMode = "log" /\ positive)
                /\ (g.invf = "exp") = (yMode = "log" /\ positive)
                /\ (yMode = "log" /\ ~positive) =>
                       /\ g.tf = "identity" /\ g.invf = "identity"
                       /\ g.tf = lin.tf /\ g.invf = lin.invf

\* C12 witness: log mode over a zoomed window with a value <= 0 in it.
C12_Witness ==
    /\ yMode = "log"
    /\ domain # Undef
    /\ Len(synth) > 0
    /\ \E i \in 1..Len(chart.slice) : chart.slice[i].value[1] <= 0
    /\ chart.tf = "identity"

-----------------------------------------------------------------------------
(* Properties of the render, checked under Spec *)

\* C13: with the start filter later than the last raw point the filtered
\* series is empty and the placeholder is shown; and whenever the synthetic
\* series is non-empty, of any length, the chart is rendered and not the
\* placeholder.
C13_ChartForEveryNonEmptySeries ==
    /\ (rawData # <<>> /\ ~NoStart(startTs)
           /\ startTs[1] > rawData[Len(rawData)].time) =>
           filteredData = <<>> /\ Placeholder /\ ~ChartShown
    /\ Len(synth) > 0 => ChartShown /\ ~Placeholder

-----------------------------------------------------------------------------
(* Properties of the range selection, checked under SpecRange *)

\* C14: the range requested is "5d" for the intervals 1, 5, 15 and 60; for
\* D, W and M it is "10y" when no start is set, and with a start set it is
\* "max" when the start is more than 10 years before now, "10y" when more
\* than 5, "5y" when more than 2 and "2y" otherwise, for every start
\* timestamp.
C14_RangeByIntervalAndStart ==
    simOut # Undef =>
        LET iv == simIn.interval
            ts == simIn.startTs
            age == Now - ts[1]
        IN  simOut[1] =
                IF iv \in {"1", "5", "15", "60"} THEN "5d"
                ELSE IF ts = Undef THEN "10y"
                ELSE IF age > 10 * Year THEN "max"
                ELSE IF age > 5 * Year THEN "10y"
                ELSE IF age > 2 * Year THEN "5y"
                ELSE "2y"

\* C14, away from the epoch: the same table for every start timestamp other
\* than 0.
C14_RangeAwayFromEpoch ==
    (simOut # Undef /\ simIn.startTs # Some(0)) => C14_RangeByIntervalAndStart

-----------------------------------------------------------------------------
(* Properties of the proxy handler, checked under SpecProxy *)

\* The indices of the timestamp array whose close is a finite number.
FiniteIndices(ts, close) ==
    {i \in 1..Len(ts) : i <= Len(close) /\ NumberIsFinite(close[i])}

\* C15: the handler answers 502 when the upstream response is not ok, 500
\* when the timestamp or the close array is missing or anything throws, and
\* otherwise 200 with a series that has, in upstream order, exactly one
\* point {time: timestamp * 1000, value: close} for every index whose close
\* is a finite number, and no other point.
C15_ProxyStatusAndSeries ==
    simOut # Undef =>
        LET u == simIn
            r == simOut[1]
            threw == u.rejects \/ (u.ok /\ (~u.parses \/ u.timestamp = NotArray))
            missing == u.timestamp = Absent \/ u.close = Absent
        IN  /\ (~u.rejects /\ ~u.ok) => r.status = 502
            /\ threw => r.status = 500
            /\ (~u.rejects /\ u.ok /\ u.parses /\ missing) => r.status = 500
            /\ (~u.rejects /\ u.ok /\ ~threw /\ ~missing) =>
                   LET ts == u.timestamp.items
                       close == u.close.items
                       idx == FiniteIndices(ts, close)
                       series == r.body.series
                   IN  /\ r.status = 200
                       /\ Len(series) = Cardinality(idx)
                       /\ \A i \in idx :
                              series[Cardinality({j \in idx : j <= i})] =
                                  [time |-> ts[i] * 1000, value |-> close[i]]

\* C15 witness: the spec's example, timestamps [1000, 2000] with closes
\* [50, NaN], answered with the single point {time: 1000000, value: 50}.
C15_Witness ==
    /\ simOut # Undef
    /\ ~simIn.rejects /\ simIn.ok /\ simIn.parses
    /\ simIn.timestamp = Array(<<1000, 2000>>)
    /\ simIn.close = Array(<<RInt(50), NaN>>)
    /\ simOut[1] = [status |-> 200,
                    body |-> [series |-> <<[time |-> 1000000, value |-> RInt(50)]>>]]

-----------------------------------------------------------------------------
(* Properties of the visible slice, checked under SpecView *)

\* C16: for a non-empty series the slice the geometry uses is never empty:
\* it is the in-order subsequence of the points with time in
\* [max(domain.x0, first time), min(domain.x1, last time)], or the whole
\* series when no point lies in that window; the anchor is the value of the
\* slice's first point and last is the slice's final point.
C16_VisibleSliceNeverEmpty ==
    \A s \in {synth} :
        Len(s) > 0 =>
            \A a \in {ActiveOf(domain, FullDomainOf(s))} :
            \A g \in {useChartPath(s, interval, a, yMode)} :
                /\ g.slice # <<>>
                /\ g.slice = VisibleSlice(s, a)
                /\ g.anchor = g.slice[1].value
                /\ g.last = Some(g.slice[Len(g.slice)])

\* C16 witness: an override with no point of the series inside it, so that
\* the slice is the whole series.
C16_Witness ==
    /\ domain # Undef
    /\ Len(synth) > 1
    /\ Within(synth, Max(domain[1].x0, synth[1].time),
                     Min(domain[1].x1, synth[Len(synth)].time)) = <<>>
    /\ chart.slice = synth
    /\ chart.last = Some(synth[Len(synth)])

-----------------------------------------------------------------------------
(* Properties of the X tick loop, checked under SpecTicks *)

\* The step from one tick to the next: the interval's length, or for M the
\* days of the tick's month.
StepFrom(t, iv) ==
    IF iv = "M"
    THEN LET c == CivilFromDays(t \div Day)
             y2 == IF c.m = 12 THEN c.y + 1 ELSE c.y
             m2 == IF c.m = 12 THEN 1 ELSE c.m + 1
         IN  (DaysFromCivil(y2, m2, 1) - DaysFromCivil(c.y, c.m, 1)) * Day
    ELSE intervalToStepMs(iv)

\* C17: for every recognized interval and every window xMin <= xMax the
\* loop runs at most 5000 times; its first tick is the aligned timestamp
\* at or before xMin; every later tick is the one before plus one interval
\* step, strictly greater, and aligned itself; no tick is after xMax; and
\* with fewer than 5000 ticks the loop has stopped only when the next tick
\* is after xMax.  Every prefix of the tick list is the list of an earlier
\* state, so the last tick is the one to look at.
C17_TickLoopBoundedAndAligned ==
    simOut # Undef =>
        LET iv == simIn.interval
            xTicks == simOut[1].xTicks
            n == Len(xTicks)
            stopped == ~TickMore(simOut[1].t, simIn.xMax, simOut[1].count)
        IN  /\ n = simOut[1].count
            /\ n <= TickGuard
            /\ n >= 1 =>
                   /\ xTicks[1] = alignToInterval(simIn.xMin, iv)
                   /\ xTicks[1] <= simIn.xMin
                   /\ simIn.xMin < xTicks[1] + StepFrom(xTicks[1], iv)
                   /\ alignToInterval(xTicks[n], iv) = xTicks[n]
                   /\ xTicks[n] <= simIn.xMax
            /\ n > 1 =>
                   /\ xTicks[n] > xTicks[n - 1]
                   /\ xTicks[n] = xTicks[n - 1] + StepFrom(xTicks[n - 1], iv)
            /\ stopped => n >= 1
            /\ (stopped /\ n < TickGuard) =>
                   xTicks[n] + StepFrom(xTicks[n], iv) > simIn.xMax

\* C17 witness: monthly ticks over a year's end and a 29 February, the loop
\* stopped by the window with the guard not reached.
C17_Witness ==
    /\ simOut # Undef
    /\ simIn.interval = "M"
    /\ simIn.xMin = 1704067199
    /\ ~TickMore(simOut[1].t, simIn.xMax, simOut[1].count)
    /\ Len(simOut[1].xTicks) = 15
    /\ simOut[1].xTicks[1] = 1701388800
    /\ simOut[1].xTicks[4] = 1709251200
    /\ simOut[1].t > simIn.xMax

\* The guard at work: after 5000 iterations the loop has stopped with the
\* next tick still inside the window.
GuardStopsLoop ==
    /\ simOut # Undef
    /\ simOut[1].count = TickGuard
    /\ simOut[1].t <= simIn.xMax

-----------------------------------------------------------------------------
(* Properties of the viewport, checked under SpecView *)

\* C18: whenever the domain is an override and the synthetic series is not
\* empty, the override lies within the extent of the current series:
\* fullDomain.x0 <= domain.x0 <= domain.x1 <= fullDomain.x1, also when the
\* series is replaced between the pointer-down and a pointer-move of one
\* drag.
C18_OverrideWithinExtent ==
    (domain # Undef /\ Len(synth) > 0) =>
        \A full \in {fullDomain} :
            /\ full.x0 <= domain[1].x0
            /\ domain[1].x0 <= domain[1].x1
            /\ domain[1].x1 <= full.x1

\* C19: panning is true exactly from a pointer-down to the next pointer-up,
\* and the saved pan start is non-null exactly while panning; a pointer move
\* while not panning, and a pointer leave, change nothing but the crosshair:
\* the domain, the series, the leverage, the Y mode and the pan state stay;
\* and an auto-fit domain becomes an override only by a wheel zoom or by a
\* pointer move of a drag.
C19_ViewportTwoStates ==
    /\ [](isPanning <=> panStart # Null)
    /\ [][/\ ev'.name = "down" => isPanning'
          /\ ev'.name = "up" => ~isPanning'
          /\ ev'.name \notin {"down", "up"} => isPanning' = isPanning
          /\ ((ev'.name = "move" /\ ~isPanning) \/ ev'.name = "leave") =>
                 UNCHANGED <<domain, rawData, startTs, preset, baseValue,
                             yMode, interval, isPanning, panStart>>
          /\ (domain = Undef /\ domain' # Undef) =>
                 (ev'.name = "wheel" \/ (ev'.name = "move" /\ isPanning))]_vars

\* C19 witness: a pointer move with no button held, the last gesture of the
\* run: the crosshair is set, the pan state is clear.
C19_Witness ==
    /\ ev.name = "move"
    /\ ~isPanning
    /\ panStart = Null
    /\ cross # Null
    /\ gestures = MaxGestures

====
